---- MODULE Spec2Model ----
(***************************************************************************)
(* Model of lib/libesp32/berry_mapping/src/be_class_wrapper.c: the name    *)
(* resolver be_find_global_or_module_member, the value converter           *)
(* be_convert_single_elt, the descriptor walk be_check_arg_type, the       *)
(* constructor store be_set_ctor_ptr and the dispatcher be_call_c_func.    *)
(*                                                                         *)
(* C strings are sequences of one-character strings; the NULL pointer is   *)
(* the sequence Null.  A Berry value is a record [k, v]: its kind and an   *)
(* integer payload (the int, 0/1, the address, the class/instance id).     *)
(* The Berry stack of the running native call is [mem, top]: the slots of  *)
(* the frame from index 1 and the number of live slots; slots above top    *)
(* keep what was last written there, as in the VM.                         *)
(***************************************************************************)
EXTENDS Integers, Sequences, FiniteSets, TLC

VARIABLES lvgl,                       \* what the global `_lvgl` is in this VM
          mode,                       \* which entry point the run exercises
          pc, stack, heap,            \* be_call_c_func: position, Berry stack, instances
          return_type, arg_type0,     \* be_call_c_func: its two descriptor arguments
          arg_start, arg_count,       \* be_call_c_func: the argument window
          at_null, arg_idx, i, p_idx, \* be_check_arg_type: locals
          p, oob,                     \* the 8-word array; a write past it happened
          ncalls, fargs, err, retval, \* native invocations, words passed, error, result
          last,                       \* be_check_arg_type: the last conversion done
          args0,                      \* the dynamic arguments the call came with
          cv, cvout,                  \* be_convert_single_elt: inputs, outcome
          fd, fdout                   \* be_find_global_or_module_member: inputs, outcome

vars == <<lvgl, mode, pc, stack, heap, return_type, arg_type0, arg_start, arg_count,
          at_null, arg_idx, i, p_idx, p, oob, ncalls, fargs, err, retval, last,
          args0, cv, cvout, fd, fdout>>

-----------------------------------------------------------------------------
(* Bounds of the model *)

\* dynamic arguments whose kinds vary freely
MaxVarArgs == 2
\* longest uniform argument list (all ints); the array has 8 slots
MaxArgs == 9
\* descriptor length in tokens
MaxTokens == 2
\* length of the descriptors of simple tags run with matching arguments
MaxSimple == 4
\* stack height in the single-conversion runs
MaxStack == 3

(* Program constants *)

\* intptr_t p[8]
NSlots == 8
\* char type_short_name[32]
TypeShortNameSize == 32

-----------------------------------------------------------------------------
(* C strings *)

Null == <<"NULL">>
NUL == "\\0"

CharAt(s, k) == IF k >= 0 /\ k < Len(s) THEN s[k + 1] ELSE NUL

Lower == {"a","b","c","d","e","f","g","h","i","j","k","l","m",
          "n","o","p","q","r","s","t","u","v","w","x","y","z"}

\* strtok_r(.., "."): the n-th run of characters other than '.', or Null
RECURSIVE SkipDots(_)
SkipDots(s) == IF s # <<>> /\ Head(s) = "." THEN SkipDots(Tail(s)) ELSE s

RECURSIVE TakeRun(_)
TakeRun(s) == IF s = <<>> \/ Head(s) = "." THEN <<>> ELSE <<Head(s)>> \o TakeRun(Tail(s))

strtok_first(s) ==
  LET r == TakeRun(SkipDots(s)) IN IF r = <<>> THEN Null ELSE r

strtok_second(s) ==
  LET a == SkipDots(s)
      r == TakeRun(a)
      rest == SubSeq(a, Len(r) + 1, Len(a))
      b == TakeRun(SkipDots(rest))
  IN IF r = <<>> \/ b = <<>> THEN Null ELSE b

-----------------------------------------------------------------------------
(* Berry values *)

Nil == [k |-> "nil", v |-> 0]
NoVal == [k |-> "none", v |-> 0]
IntV(n) == [k |-> "int", v |-> n]
BoolV(n) == [k |-> "bool", v |-> n]
StrV(a) == [k |-> "string", v |-> a]
PtrV(a) == [k |-> "comptr", v |-> a]
ClosureV(n) == [k |-> "closure", v |-> n]
ClassV(c) == [k |-> "class", v |-> c]
InstV(n) == [k |-> "instance", v |-> n]
ModuleV(n) == [k |-> "module", v |-> n]
FnBuffer == [k |-> "function", v |-> 1]
FnGenCb == [k |-> "function", v |-> 2]

n_p == <<"_", "p">>
n_dotp == <<".", "p">>
n_buffer == <<"_", "b", "u", "f", "f", "e", "r">>
n_gen_cb == <<"g", "e", "n", "_", "c", "b">>
n_lvgl == <<"_", "l", "v", "g", "l">>
n_lvgl_gen_cb == n_lvgl \o <<".">> \o n_gen_cb
n_ob == <<"o", "b">>
n_bt == <<"b", "t">>
n_ix == <<"i", "x">>
n_x == <<"x">>

\* classes: 1 bytes (builtin), 2 `ob`, 3 `bt` (a subclass of ob), 4 `ix`
ClassSuper(c) == IF c = 3 THEN 2 ELSE 0

RECURSIVE DerivesFrom(_, _)
DerivesFrom(c0, c1) ==
  IF c0 = 0 THEN FALSE ELSE IF c0 = c1 THEN TRUE ELSE DerivesFrom(ClassSuper(c0), c1)

\* trampoline address the callback generator returns for a closure
Trampoline(n) == 100 + n
\* address of the buffer of a bytes instance
BufferOf(n) == 200 + n

Inst(c, m) == [cls |-> c, m |-> m]

\* the instances of the VM: id -> class and members
\*  1 ob, _p = comptr 9        2 bt, .p = comptr 11 (legacy member only)
\*  3 bytes                    4 ix, no pointer member
\*  5 ob, _p = instance 1      6 ob, _p = a closure
\*  7 ob, members gen_cb, ob and io (the instance bound to the globals `in`, `_lvgl`)
\*  8 ob, _p = nil, x = nil (a fresh object under construction)
\*  9 ix, _p = comptr 0      10 bytes, with a member _p = nil
InitHeap ==
  [n \in 1..10 |->
     CASE n = 1 -> Inst(2, (n_p :> PtrV(9)))
       [] n = 2 -> Inst(3, (n_dotp :> PtrV(11)))
       [] n = 3 -> Inst(1, (n_buffer :> FnBuffer))
       [] n = 4 -> Inst(4, <<>>)
       [] n = 5 -> Inst(2, (n_p :> InstV(1)))
       [] n = 6 -> Inst(2, (n_p :> ClosureV(1)))
       [] n = 7 -> Inst(2, (n_gen_cb :> FnGenCb) @@ (n_ob :> ClassV(2))
                              @@ (<<"i", "o">> :> InstV(1)))
       [] n = 8 -> Inst(2, (n_p :> Nil) @@ (n_x :> Nil))
       [] n = 9 -> Inst(4, (n_p :> PtrV(0)))
       [] n = 10 -> Inst(1, (n_buffer :> FnBuffer) @@ (n_p :> Nil))]

\* modules: 1 `m` (members ob, gen, io), 2 `_lvgl` when it is a module (member gen_cb)
ModuleMember(n, name) ==
  CASE n = 1 /\ name = n_ob -> ClassV(2)
    [] n = 1 /\ name = <<"g", "e", "n">> -> FnGenCb
    [] n = 1 /\ name = <<"i", "o">> -> InstV(1)
    [] n = 2 /\ name = n_gen_cb -> FnGenCb
    [] OTHER -> NoVal

\* the global table
Global(name) ==
  CASE name = n_ob -> ClassV(2)
    [] name = n_bt -> ClassV(3)
    [] name = n_ix -> ClassV(4)
    [] name = <<"m">> -> ModuleV(1)
    [] name = <<"i", "n">> -> InstV(7)
    [] name = <<"g", "g">> -> FnGenCb
    [] name = <<"n", "n">> -> IntV(5)
    [] name = n_lvgl /\ lvgl = "module" -> ModuleV(2)
    [] name = n_lvgl /\ lvgl = "instance" -> InstV(7)
    [] OTHER -> NoVal

-----------------------------------------------------------------------------
(* Interpreter primitives, as the wrapper uses them *)

Stk(s) == [mem |-> s, top |-> Len(s)]
Live(st) == SubSeq(st.mem, 1, st.top)

be_absindex(st, idx) == IF idx > 0 THEN idx ELSE st.top + idx + 1

\* the value of a slot; a slot below the frame reads as nil
be_indexof(st, idx) ==
  LET a == be_absindex(st, idx)
  IN IF a >= 1 /\ a <= Len(st.mem) THEN st.mem[a] ELSE Nil

be_push(st, val) ==
  [mem |-> IF st.top < Len(st.mem) THEN [st.mem EXCEPT ![st.top + 1] = val]
                                   ELSE Append(st.mem, val),
   top |-> st.top + 1]

be_pop(st, n) == [st EXCEPT !.top = st.top - n]

be_pushvalue(st, idx) == be_push(st, be_indexof(st, idx))

\* moves the slots above idx down by one; an index below the frame moves
\* the whole frame down
be_remove(st, idx) ==
  LET a == be_absindex(st, idx)
  IN [mem |-> [j \in 1..Len(st.mem) |->
                 IF j >= a /\ j < st.top THEN st.mem[j + 1] ELSE st.mem[j]],
      top |-> st.top - 1]

\* be_getglobal: pushes the global or nil, tells whether it was found
be_getglobal(st, name) ==
  LET g == Global(name)
  IN [ok |-> g # NoVal, st |-> be_push(st, IF g = NoVal THEN Nil ELSE g)]

MemberOf(hp, o, name) ==
  CASE o.k = "instance" ->
         IF name \in DOMAIN hp[o.v].m THEN hp[o.v].m[name] ELSE NoVal
    [] o.k = "module" -> ModuleMember(o.v, name)
    [] OTHER -> NoVal

\* be_getmember: pushes the member or nil, tells whether it is there (not nil)
be_getmember(st, hp, idx, name) ==
  LET mv == MemberOf(hp, be_indexof(st, idx), name)
      found == mv # NoVal /\ mv # Nil
  IN [ok |-> found, st |-> be_push(st, IF found THEN mv ELSE Nil)]

ClassOfValue(hp, val) ==
  CASE val.k = "class" -> val.v
    [] val.k = "instance" -> hp[val.v].cls
    [] OTHER -> 0

\* be_isderived: is the class of the slot the class of the top slot or below it
be_isderived(st, hp, idx) ==
  LET c0 == ClassOfValue(hp, be_indexof(st, idx))
      c1 == ClassOfValue(hp, be_indexof(st, -1))
  IN c0 # 0 /\ c1 # 0 /\ DerivesFrom(c0, c1)

be_classof(st, hp, idx) == be_push(st, ClassV(ClassOfValue(hp, be_indexof(st, idx))))

be_tocomptr(val) == IF val.k = "comptr" THEN val.v ELSE 0

\* what a called function returns: _buffer(instance), gen_cb(closure, self, text)
\* and gen_cb(receiver, closure, self, text)
CallResult(f, args) ==
  CASE f = FnBuffer /\ args[1].k = "instance" -> PtrV(BufferOf(args[1].v))
    [] f = FnGenCb /\ Len(args) = 3 /\ args[1].k = "closure" -> PtrV(Trampoline(args[1].v))
    [] f = FnGenCb /\ Len(args) = 4 /\ args[2].k = "closure" -> PtrV(Trampoline(args[2].v))
    [] OTHER -> Nil

\* be_call: the result replaces the function slot, the arguments stay
be_call(st, argc) ==
  LET fpos == st.top - argc
      args == SubSeq(st.mem, fpos + 1, st.top)
  IN [st EXCEPT !.mem[fpos] = CallResult(st.mem[fpos], args)]

-----------------------------------------------------------------------------
(* be_find_global_or_module_member: the number of values pushed and the stack *)

\* the test of line 70 made on the member (slot -1) in place of the global
FindIsMethod_member(st) == be_indexof(st, -1).k = "instance"

\* line 70: with the global and its member pushed, is slot -2 an instance
FindIsMethod(st) == be_indexof(st, -2).k = "instance"

be_find_global_or_module_member(st, hp, name) ==
  IF name = Null THEN [n |-> 0, st |-> be_push(st, Nil)]
  ELSE
    LET prefix == strtok_first(name)
        suffix == strtok_second(name)
        g == be_getglobal(st, prefix)
    IN IF suffix # Null
       THEN IF g.ok
            THEN LET mb == be_getmember(g.st, hp, -1, suffix)
                 IN IF mb.ok
                    THEN IF FindIsMethod(mb.st)
                         THEN [n |-> 2, st |-> be_remove(be_pushvalue(mb.st, -2), -3)]
                         ELSE [n |-> 1, st |-> be_remove(mb.st, -2)]
                    ELSE [n |-> 0, st |-> be_pop(mb.st, 2)]
            ELSE [n |-> 0, st |-> be_pop(g.st, 1)]
       ELSE IF g.ok THEN [n |-> 1, st |-> g.st]
            ELSE [n |-> 0, st |-> be_pop(g.st, 1)]

-----------------------------------------------------------------------------
(* be_convert_single_elt: err = "" and the word, or the error raised *)

Returned(w, st) == [err |-> "", msg |-> "", word |-> w, st |-> st]
Raised(e, m, st) == [err |-> e, msg |-> m, word |-> 0, st |-> st]

IsSimpleKind(val) == val.k \in {"int", "bool", "string", "comptr", "nil"}

provided_type_of(val) ==
  CASE val.k = "int" -> "i"
    [] val.k = "bool" -> "b"
    [] val.k = "string" -> "s"
    [] val.k = "comptr" -> "c"
    [] val.k = "nil" -> "c"
    [] OTHER -> NUL

\* lines 146-167: the callback branch; arg_type is already past the '^'
ConvertCallback(st, hp, idx, arg_type, gen_cb) ==
  IF be_indexof(st, idx).k = "closure"
  THEN LET f == be_find_global_or_module_member(st, hp, gen_cb)
       IN IF f.n # 0
          THEN LET s1 == be_remove(f.st, -3)
                   s2 == be_pushvalue(s1, idx)
                   s3 == be_pushvalue(s2, 1)
                   s4 == be_push(s3, StrV(0))
                   s5 == be_call(s4, 2 + f.n)
                   func == be_tocomptr(be_indexof(s5, -(3 + f.n)))
               IN Returned(func, be_pop(s5, 3 + f.n))
          ELSE Raised("type_error", "cb_generator_not_found", f.st)
  ELSE Raised("type_error", "closure_expected", st)

\* lines 176-188: the simple kinds
ConvertSimple(st, val, arg_type) ==
  LET ret == val.v
      provided_type == provided_type_of(val)
      type_ok == \/ CharAt(arg_type, 0) = "."
                 \/ CharAt(arg_type, 0) = provided_type
                 \/ (ret = 0 /\ Len(arg_type) # 1)
  IN IF type_ok THEN Returned(ret, st)
     ELSE Raised("type_error", "unexpected_argument_type", st)

\* the class check with a class that is not found let through
ConvertClassCheck_lax(st, hp, idx, arg_type, ret) ==
  IF Len(arg_type) > 1
  THEN LET s1 == be_classof(st, hp, idx)
           f == be_find_global_or_module_member(s1, hp, arg_type)
       IN IF f.n # 0
          THEN IF ~be_isderived(f.st, hp, -2)
               THEN Raised("type_error", "unexpected_class_type", f.st)
               ELSE Returned(ret, be_pop(f.st, 2))
          ELSE Returned(ret, be_pop(f.st, 1))
  ELSE IF CharAt(arg_type, 0) # "."
       THEN Raised("value_error", "unexpected_instance_type", st)
       ELSE Returned(ret, st)

\* lines 213-230: the class check of a wrapped instance whose pointer is ret
ConvertClassCheck(st, hp, idx, arg_type, ret) ==
  IF Len(arg_type) > 1
  THEN LET s1 == be_classof(st, hp, idx)
           f == be_find_global_or_module_member(s1, hp, arg_type)
       IN IF f.n # 0
          THEN IF ~be_isderived(f.st, hp, -2)
               THEN Raised("type_error", "unexpected_class_type", f.st)
               ELSE Returned(ret, be_pop(f.st, 2))
          ELSE Raised("value_error", "class_not_found", f.st)
  ELSE IF CharAt(arg_type, 0) # "."
       THEN Raised("value_error", "unexpected_instance_type", st)
       ELSE Returned(ret, st)

RECURSIVE be_convert_single_elt(_, _, _, _, _)
be_convert_single_elt(st, hp, idx0, arg_type0_, gen_cb) ==
  LET idx == be_absindex(st, idx0)
      arg_type == IF arg_type0_ = Null THEN <<".">> ELSE arg_type0_
      val == be_indexof(st, idx)
  IN IF Len(arg_type) > 1 /\ arg_type[1] = "^"
     THEN ConvertCallback(st, hp, idx, Tail(arg_type), gen_cb)
     ELSE IF IsSimpleKind(val)
     THEN ConvertSimple(st, val, arg_type)
     ELSE IF val.k = "instance"
     THEN LET s1 == be_push(st, ClassV(1))          \* be_getbuiltin(vm, "bytes")
          IN IF be_isderived(s1, hp, idx)
             THEN LET s2 == be_pop(s1, 1)
                      s3 == be_getmember(s2, hp, idx, n_buffer).st
                      s4 == be_pushvalue(s3, idx)
                      s5 == be_call(s4, 1)
                  IN Returned(be_tocomptr(be_indexof(s5, -2)), be_pop(s5, 2))
             ELSE LET s2 == be_pop(s1, 1)
                      m1 == be_getmember(s2, hp, idx, n_p)
                      s3 == IF m1.ok THEN m1.st
                            ELSE be_getmember(be_pop(m1.st, 1), hp, idx, n_dotp).st
                      r == be_convert_single_elt(s3, hp, -1, Null, Null)
                  IN IF r.err # "" THEN r
                     ELSE ConvertClassCheck(be_pop(r.st, 1), hp, idx, arg_type, r.word)
     ELSE Raised("value_error", "unexpected_value", st)

-----------------------------------------------------------------------------
(* be_check_arg_type: one descriptor token (lines 264-303) *)

\* the while loop of line 288: the offset at which the scan of a name stops
RECURSIVE ScanName(_, _, _, _)
ScanName(atype, aidx, offset, prefix) ==
  LET c == CharAt(atype, aidx + offset)
  IN IF c # ")" /\ c # "^" /\ c # NUL /\ offset + prefix + 1 < TypeShortNameSize
     THEN ScanName(atype, aidx, offset + 1, prefix)
     ELSE offset

\* the scanner with '-' read as one more simple tag, so that it fills a slot
ExtractType_noskip(atype, aidx) ==
  LET c == CharAt(atype, aidx)
  IN IF c = NUL
     THEN [skip |-> FALSE, name |-> <<>>, arg_idx |-> aidx, null |-> TRUE]
     ELSE [skip |-> FALSE, name |-> <<".">>, arg_idx |-> aidx + 1, null |-> FALSE]

\* skip: the '-' token; name: type_short_name; null: arg_type was set to NULL
ExtractType(atype, aidx) ==
  LET c == CharAt(atype, aidx)
  IN CASE c = "-" ->
            [skip |-> TRUE, name |-> <<>>, arg_idx |-> aidx + 1, null |-> FALSE]
       [] c = "." \/ c \in Lower ->
            [skip |-> FALSE, name |-> <<c>>, arg_idx |-> aidx + 1, null |-> FALSE]
       [] c = "(" \/ c = "^" ->
            LET prefix == IF c = "^" THEN 1 ELSE 0
                offset == ScanName(atype, aidx + 1, 0, prefix)
            IN [skip |-> FALSE,
                name |-> (IF c = "^" THEN <<"^">> ELSE <<>>)
                         \o SubSeq(atype, aidx + 2, aidx + 1 + offset),
                arg_idx |-> aidx + 1 + offset + 1,
                null |-> CharAt(atype, aidx + 1 + offset) = NUL]
       [] c = NUL ->
            [skip |-> FALSE, name |-> <<>>, arg_idx |-> aidx, null |-> TRUE]
       [] OTHER ->
            [skip |-> FALSE, name |-> <<>>, arg_idx |-> aidx, null |-> FALSE]

-----------------------------------------------------------------------------
(* be_set_ctor_ptr (lines 329-340): the heap after the store, or the error *)

\* the store with the test for an empty name inverted: nothing is stored
be_set_ctor_ptr_nostore(st, hp, ptr, name0) == [err |-> "", hp |-> hp]

be_set_ctor_ptr(st, hp, ptr, name0) ==
  IF name0 = Null THEN [err |-> "", hp |-> hp]
  ELSE LET name == IF CharAt(name0, 0) = "+" THEN Tail(name0) ELSE name0
           self == be_indexof(st, 1)
       IN IF Len(name) = 0 THEN [err |-> "", hp |-> hp]
          ELSE IF self.k = "instance" /\ name \in DOMAIN hp[self.v].m
               THEN [err |-> "", hp |-> [hp EXCEPT ![self.v].m[name] = PtrV(ptr)]]
               ELSE [err |-> "missing_member", hp |-> hp]

-----------------------------------------------------------------------------
(* be_call_c_func, in steps *)

NoLast == [i |-> -1, tag |-> Null, err |-> "", word |-> 0, surplus |-> FALSE]

IsCtor == return_type # Null /\ CharAt(return_type, 0) = "+"

\* lines 355-375: the argument window; adopting a supplied pointer ends the call
CallEnter ==
  /\ mode = "call" /\ pc = "enter"
  /\ LET argc == stack.top
     IN IF IsCtor
        THEN IF argc > 1 /\ be_indexof(stack, 2).k = "comptr"
             THEN LET r == be_set_ctor_ptr(stack, heap, be_indexof(stack, 2).v, return_type)
                  IN /\ heap' = r.hp
                     /\ err' = r.err
                     /\ pc' = IF r.err = "" THEN "adopted" ELSE "raised"
                     /\ UNCHANGED <<arg_start, arg_count>>
             ELSE /\ arg_start' = 2 /\ arg_count' = argc - 1
                  /\ pc' = "args"
                  /\ UNCHANGED <<heap, err>>
        ELSE /\ arg_start' = 1 /\ arg_count' = argc
             /\ pc' = "args"
             /\ UNCHANGED <<heap, err>>
  /\ UNCHANGED <<lvgl, mode, stack, return_type, arg_type0, at_null, arg_idx, i, p_idx,
                 p, oob, ncalls, fargs, retval, last, args0, cv, cvout, fd, fdout>>

\* lines 263-306: one turn of the loop of be_check_arg_type
ConvertArg ==
  /\ mode = "call" /\ pc = "args" /\ i < arg_count
  /\ LET tok == IF at_null
                THEN [skip |-> FALSE, name |-> <<>>, arg_idx |-> arg_idx, null |-> TRUE]
                ELSE ExtractType(arg_type0, arg_idx)
         tag == IF arg_type0 # Null THEN tok.name ELSE Null
         r == be_convert_single_elt(stack, heap, i + arg_start, tag, n_lvgl_gen_cb)
     IN IF tok.skip
        THEN /\ arg_idx' = tok.arg_idx /\ i' = i + 1
             /\ UNCHANGED <<at_null, stack, p, p_idx, oob, err, pc, last>>
        ELSE /\ arg_idx' = tok.arg_idx
             /\ at_null' = tok.null
             /\ last' = [i |-> i, tag |-> tag, err |-> r.msg, word |-> r.word,
                         surplus |-> arg_type0 # Null /\ CharAt(arg_type0, arg_idx) = NUL]
             /\ IF r.err # ""
                THEN /\ err' = r.msg /\ pc' = "raised"
                     /\ UNCHANGED <<stack, p, p_idx, oob, i>>
                ELSE /\ stack' = r.st
                     /\ i' = i + 1
                     /\ p_idx' = p_idx + 1
                     /\ IF p_idx < NSlots
                        THEN /\ p' = [p EXCEPT ![p_idx] = r.word]
                             /\ UNCHANGED <<oob, pc>>
                        ELSE \* p[p_idx] lies past the array: the word lands in the
                             \* caller's frame; the run goes on or is killed
                             /\ oob' = TRUE
                             /\ pc' \in {"args", "crashed"}
                             /\ UNCHANGED p
                     /\ UNCHANGED err
  /\ UNCHANGED <<lvgl, mode, heap, return_type, arg_type0, arg_start, arg_count,
                 ncalls, fargs, retval, args0, cv, cvout, fd, fdout>>

\* the check of lines 308-311 reporting without raising
CheckMissing_noraise ==
  /\ mode = "call" /\ pc = "args" /\ i >= arg_count
  /\ err' = IF arg_type0 # Null /\ ~at_null /\ CharAt(arg_type0, arg_idx) # NUL
            THEN "missing_arguments" ELSE err
  /\ pc' = "invoke"
  /\ UNCHANGED <<lvgl, mode, stack, heap, return_type, arg_type0, arg_start, arg_count,
                 at_null, arg_idx, i, p_idx, p, oob, ncalls, fargs, retval, last,
                 args0, cv, cvout, fd, fdout>>

\* lines 308-311: the descriptor must be used up
CheckMissing ==
  /\ mode = "call" /\ pc = "args" /\ i >= arg_count
  /\ IF arg_type0 # Null /\ ~at_null /\ CharAt(arg_type0, arg_idx) # NUL
     THEN err' = "missing_arguments" /\ pc' = "raised"
     ELSE err' = err /\ pc' = "invoke"
  /\ UNCHANGED <<lvgl, mode, stack, heap, return_type, arg_type0, arg_start, arg_count,
                 at_null, arg_idx, i, p_idx, p, oob, ncalls, fargs, retval, last,
                 args0, cv, cvout, fd, fdout>>

NativeResults == {0, 7}

\* line 379: the native function is called with the eight words
Invoke ==
  /\ mode = "call" /\ pc = "invoke"
  /\ ncalls' = ncalls + 1
  /\ fargs' = p
  /\ \E ret \in NativeResults : retval' = IntV(ret)
  /\ pc' = "result"
  /\ UNCHANGED <<lvgl, mode, stack, heap, return_type, arg_type0, arg_start, arg_count,
                 at_null, arg_idx, i, p_idx, p, oob, err, last, args0, cv, cvout, fd, fdout>>

\* lines 382-405: the word returned becomes the Berry result
ConvertResult ==
  /\ mode = "call" /\ pc = "result"
  /\ LET ret == retval.v
     IN IF return_type = Null \/ Len(return_type) = 0
        THEN retval' = Nil /\ pc' = "done" /\ UNCHANGED <<heap, err>>
        ELSE IF return_type[1] = "+"
        THEN LET r == be_set_ctor_ptr(stack, heap, ret, return_type)
             IN /\ heap' = r.hp /\ err' = r.err /\ retval' = Nil
                /\ pc' = IF r.err = "" THEN "done" ELSE "raised"
        ELSE IF Len(return_type) = 1
        THEN /\ UNCHANGED heap
             /\ CASE return_type[1] \in {".", "i", "c"} ->
                       retval' = IntV(ret) /\ pc' = "done" /\ UNCHANGED err
                  [] return_type[1] = "b" ->
                       retval' = BoolV(IF ret = 0 THEN 0 ELSE 1) /\ pc' = "done"
                       /\ UNCHANGED err
                  [] return_type[1] = "s" ->
                       retval' = StrV(ret) /\ pc' = "done" /\ UNCHANGED err
                  [] OTHER ->
                       retval' = Nil /\ err' = "unsupported_return_type" /\ pc' = "raised"
        ELSE LET f == be_find_global_or_module_member(stack, heap, return_type)
             IN /\ UNCHANGED heap
                /\ IF f.n # 0 /\ be_indexof(f.st, -f.n).k = "class"
                   THEN retval' = [k |-> "wrapper", v |-> ret] /\ pc' = "done"
                        /\ UNCHANGED err
                   ELSE retval' = Nil /\ err' = "not_callable" /\ pc' = "raised"
  /\ UNCHANGED <<lvgl, mode, stack, return_type, arg_type0, arg_start, arg_count,
                 at_null, arg_idx, i, p_idx, p, oob, ncalls, fargs, last, args0,
                 cv, cvout, fd, fdout>>

-----------------------------------------------------------------------------
(* The calls the model makes *)

LvglKinds == {"module", "instance", "absent"}

RECURSIVE Concats(_, _)
\* the concatenations of at most n members of T
Concats(T, n) ==
  IF n = 0 THEN {<<>>}
  ELSE LET prev == Concats(T, n - 1) IN prev \cup {d \o t : d \in prev, t \in T}

t_ob == <<"(">> \o n_ob \o <<")">>
t_ix == <<"(">> \o n_ix \o <<")">>
t_zz == <<"(", "z", "z", ")">>
t_cb == <<"^", "c", "b", "^">>
rt_p == <<"+">> \o n_p

Tokens == {<<"-">>, <<"i">>, t_ob, t_ix, t_cb}
\* descriptors that end inside a name, hold a character no case handles, or
\* name a class by one letter or by nothing
OddDescriptors == {<<"(", "o", "b">>, <<"^", "c", "b">>, <<"I">>, <<"(", "i", ")">>,
                   <<"(", ")">>, <<"(", "^", "c", "b", ")">>, t_zz, <<"i">> \o t_zz}
ArgValues == {Nil, IntV(0), IntV(5), PtrV(7), ClosureV(1), InstV(1)}

ReturnTypes == {Null, <<>>, <<"i">>, <<"b">>, <<"s">>, <<"c">>, <<".">>, <<"Z">>,
                rt_p, <<"+">>, <<"+">> \o n_x, <<"+">> \o n_dotp, <<"+", "q">>,
                n_ob, <<"m", ".", "o", "b">>, <<"z", "z">>, <<"n", "n">>}

SimpleTokens == {"-", "i", "s", "c", "."}
MatchingValues(t) ==
  CASE t = "-" -> {ClosureV(1), IntV(5)}
    [] t = "i" -> {IntV(0), IntV(5)}
    [] t = "s" -> {StrV(40)}
    [] t = "c" -> {PtrV(7)}
    [] t = "." -> {InstV(1)}

RECURSIVE MatchedPairs(_)
\* descriptors of at most n simple tags and skips, each with matching arguments
MatchedPairs(n) ==
  IF n = 0 THEN {[at |-> <<>>, st |-> <<>>]}
  ELSE LET prev == MatchedPairs(n - 1)
       IN prev \cup UNION {{[at |-> q.at \o <<t>>, st |-> q.st \o <<x>>] :
                               q \in prev, x \in MatchingValues(t)} : t \in SimpleTokens}

Idle ==
  /\ arg_start = 1 /\ arg_count = 0 /\ at_null = FALSE /\ arg_idx = 0 /\ i = 0
  /\ p_idx = 0 /\ p = [j \in 0..(NSlots - 1) |-> 0] /\ oob = FALSE
  /\ ncalls = 0 /\ fargs = <<>> /\ err = "" /\ retval = Nil /\ last = NoLast

NoConv == [st |-> <<>>, idx |-> 0, tag |-> Null, gen_cb |-> Null]
NoFind == [st |-> <<>>, name |-> Null]

\* be_call_c_func(vm, func, rt, at) entered with the values st on the stack
Start(lv, rt, at, st) ==
  /\ lvgl = lv /\ return_type = rt /\ arg_type0 = at
  /\ stack = Stk(st) /\ args0 = st

\* a constructor runs as init() with its instance in slot 1
WithSelf(rt, a) == (IF rt = Null THEN <<>> ELSE <<InstV(8)>>) \o a

\* every argument list against every descriptor, as a plain call and as a constructor
StartMixed ==
  \E lv \in LvglKinds, rt \in {Null, rt_p} :
    \E at \in {Null} \cup Concats(Tokens, MaxTokens) \cup OddDescriptors :
      \E a \in Concats({<<x>> : x \in ArgValues}, MaxVarArgs) :
        Start(lv, rt, at, WithSelf(rt, a))

\* every return type, on a few argument lists; a constructor has its instance first
StartReturn ==
  \E rt \in ReturnTypes, at \in {Null, <<".">>} :
    \E st \in {<<InstV(8)>>, <<InstV(8), PtrV(7)>>, <<InstV(8), PtrV(0)>>,
               <<InstV(2), PtrV(7)>>, <<InstV(4), PtrV(7)>>, <<InstV(1), PtrV(7)>>,
               <<InstV(3), PtrV(7)>>, <<InstV(10), PtrV(7)>>, <<InstV(8), IntV(5)>>,
               <<InstV(8), PtrV(7), IntV(5)>>} :
      Start("module", rt, at, st)

\* simple descriptors with one matching argument per token
StartMatched ==
  \E rt \in {Null, rt_p}, q \in MatchedPairs(MaxSimple) :
    Start("module", rt, q.at, WithSelf(rt, q.st))

\* up to MaxArgs ints, unchecked or against a descriptor of as many 'i', or of one
StartLong ==
  \E n \in 0..MaxArgs :
    \/ \E at \in {Null, <<"i">>} :
         Start("module", Null, at, [j \in 1..n |-> IntV(IF j = 1 THEN 5 ELSE 0)])
    \/ Start("module", Null, [j \in 1..n |-> "i"], [j \in 1..n |-> IntV(5)])

Init ==
  /\ mode = "call" /\ pc = "enter"
  /\ (StartMixed \/ StartReturn \/ StartMatched \/ StartLong)
  /\ heap = InitHeap
  /\ Idle
  /\ cv = NoConv /\ cvout = Returned(0, Stk(<<>>))
  /\ fd = NoFind /\ fdout = [n |-> 0, st |-> Stk(<<>>)]

Next == CallEnter \/ ConvertArg \/ CheckMissing \/ Invoke \/ ConvertResult

Spec == Init /\ [][Next]_vars

-----------------------------------------------------------------------------
(* be_convert_single_elt on its own *)

ConvValues == {Nil, IntV(0), IntV(5), BoolV(0), BoolV(1), StrV(40), PtrV(0), PtrV(7),
               ClosureV(1), ClassV(2), FnGenCb} \cup {InstV(n) : n \in 1..10}

ConvTags == {Null, <<>>, <<".">>, <<"i">>, <<"b">>, <<"s">>, <<"c">>, <<"x">>, <<"^">>,
             n_ob, n_bt, n_ix, <<"m", ".", "o", "b">>, <<"i", "n", ".", "o", "b">>,
             <<"z", "z">>, <<"m", ".", "z", "z">>, <<"c", "z">>, <<"n", "n">>,
             <<"^", "c", "b">>}

ConvGenCbs == {Null, n_lvgl_gen_cb, <<"g", "g">>, <<"m", ".", "g", "e", "n">>,
               <<"i", "n", ".", "g", "e", "n", "_", "c", "b">>, <<"z", "z">>}

\* the value at every position of a stack whose slot 1 is otherwise the instance
\* of the running method and whose other slots hold ints
ConvStacks(val) ==
  {[st |-> [j \in 1..h |-> IF j = k THEN val ELSE IF j = 1 THEN InstV(8) ELSE IntV(j)],
    idx |-> k] : h \in 1..MaxStack, k \in 1..MaxStack} 

InitConv ==
  /\ mode = "conv" /\ pc = "enter"
  /\ lvgl \in LvglKinds
  /\ \E val \in ConvValues, tag \in ConvTags, g \in ConvGenCbs :
       \E s \in {x \in ConvStacks(val) : x.idx <= Len(x.st)} :
         cv = [st |-> s.st, idx |-> s.idx, tag |-> tag, gen_cb |-> g]
  /\ cvout = Returned(0, Stk(<<>>))
  /\ return_type = Null /\ arg_type0 = Null /\ stack = Stk(<<>>) /\ args0 = <<>>
  /\ heap = InitHeap
  /\ Idle
  /\ fd = NoFind /\ fdout = [n |-> 0, st |-> Stk(<<>>)]

Convert ==
  /\ mode = "conv" /\ pc = "enter"
  /\ cvout' = be_convert_single_elt(Stk(cv.st), heap, cv.idx, cv.tag, cv.gen_cb)
  /\ pc' = "done"
  /\ UNCHANGED <<lvgl, mode, stack, heap, return_type, arg_type0, arg_start, arg_count,
                 at_null, arg_idx, i, p_idx, p, oob, ncalls, fargs, err, retval, last,
                 args0, cv, fd, fdout>>

NextConv == Convert

SpecConv == InitConv /\ [][NextConv]_vars

-----------------------------------------------------------------------------
(* be_find_global_or_module_member on its own *)

FindNames == {Null, n_ob, <<"z", "z">>, <<"m">>, <<"n", "n">>, n_lvgl, n_lvgl_gen_cb,
              <<"m", ".", "o", "b">>, <<"m", ".", "i", "o">>, <<"m", ".", "g", "e", "n">>,
              <<"m", ".", "z", "z">>, <<"i", "n", ".", "o", "b">>,
              <<"i", "n", ".", "i", "o">>, <<"i", "n", ".", "g", "e", "n", "_", "c", "b">>,
              <<"i", "n", ".", "z", "z">>, <<"z", "z", ".", "o", "b">>,
              <<"n", "n", ".", "o", "b">>, <<"o", "b", ".", "o", "b">>,
              <<"m", ".", "o", "b", ".", "x">>, <<".", "o", "b">>,
              <<"m", ".", ".", "o", "b">>, <<"o", "b", ".">>}

InitFind ==
  /\ mode = "find" /\ pc = "enter"
  /\ lvgl \in LvglKinds
  /\ \E name \in FindNames, h \in 0..MaxStack :
       fd = [st |-> [j \in 1..h |-> IF j = 1 THEN InstV(8) ELSE IntV(j)], name |-> name]
  /\ fdout = [n |-> 0, st |-> Stk(<<>>)]
  /\ return_type = Null /\ arg_type0 = Null /\ stack = Stk(<<>>) /\ args0 = <<>>
  /\ heap = InitHeap
  /\ Idle
  /\ cv = NoConv /\ cvout = Returned(0, Stk(<<>>))

Find ==
  /\ mode = "find" /\ pc = "enter"
  /\ fdout' = be_find_global_or_module_member(Stk(fd.st), heap, fd.name)
  /\ pc' = "done"
  /\ UNCHANGED <<lvgl, mode, stack, heap, return_type, arg_type0, arg_start, arg_count,
                 at_null, arg_idx, i, p_idx, p, oob, ncalls, fargs, err, retval, last,
                 args0, cv, cvout, fd>>

NextFind == Find

SpecFind == InitFind /\ [][NextFind]_vars

-----------------------------------------------------------------------------
(* What the claims speak of *)

\* the errors be_check_arg_type can end with
ArgErrors == {"closure_expected", "cb_generator_not_found", "unexpected_argument_type",
              "unexpected_class_type", "class_not_found", "unexpected_instance_type",
              "unexpected_value", "missing_arguments"}

IsBytes(hp, val) == val.k = "instance" /\ DerivesFrom(hp[val.v].cls, 1)

HasMember(hp, val, name) == name \in DOMAIN hp[val.v].m

\* the machine word a value stands for: the int, 0/1, the address, 0 for nil,
\* the buffer of a bytes object, the word of the pointer member of a wrapper;
\* -1 for a value that stands for none
RECURSIVE WordOf(_, _)
WordOf(hp, val) ==
  CASE IsSimpleKind(val) -> val.v
    [] val.k = "instance" /\ IsBytes(hp, val) -> BufferOf(val.v)
    [] val.k = "instance" /\ ~IsBytes(hp, val) ->
         IF HasMember(hp, val, n_p) /\ hp[val.v].m[n_p] # Nil
         THEN WordOf(hp, hp[val.v].m[n_p])
         ELSE IF HasMember(hp, val, n_dotp) THEN WordOf(hp, hp[val.v].m[n_dotp])
         ELSE 0
    [] OTHER -> -1

\* the dynamic arguments handed to be_check_arg_type
WindowArgs == SubSeq(args0, arg_start, Len(args0))

\* a value of the kind a simple tag names
Matches(t, val) ==
  CASE t = "-" -> TRUE
    [] t = "i" -> val.k = "int"
    [] t = "b" -> val.k = "bool"
    [] t = "s" -> val.k = "string"
    [] t = "c" -> val.k \in {"comptr", "nil"}
    [] t = "." -> IsSimpleKind(val) \/ (val.k = "instance" /\ WordOf(heap, val) >= 0)
    [] OTHER -> FALSE

\* the descriptor holds simple tags and skips only, one per argument, each matched
SimpleMatched ==
  /\ arg_type0 # Null
  /\ Len(arg_type0) = Len(WindowArgs)
  /\ \A j \in 1..Len(arg_type0) :
       arg_type0[j] \in {"-", ".", "i", "b", "s", "c"} /\ Matches(arg_type0[j], WindowArgs[j])

\* the words of the first n arguments that are not skipped, in argument order
RECURSIVE WordsOfFirst(_)
WordsOfFirst(n) ==
  IF n = 0 THEN <<>>
  ELSE IF arg_type0[n] = "-" THEN WordsOfFirst(n - 1)
       ELSE Append(WordsOfFirst(n - 1), WordOf(heap, WindowArgs[n]))

\* a class name the scanner can take from a '(name)' token
FromParenToken(tag) ==
  /\ tag # Null
  /\ Len(tag) < TypeShortNameSize
  /\ \A j \in 1..Len(tag) : tag[j] \notin {")", "^"}

\* a tag naming a class: more than one character, not a callback
IsNamedClass(tag) == tag # Null /\ Len(tag) > 1 /\ tag[1] # "^"

Unresolved(tag) == be_find_global_or_module_member(Stk(<<>>), heap, tag).n = 0

CvValue == cv.st[cv.idx]

\* an instance off the bytes line with neither `_p` nor `.p`
IsBareInstance(hp, val) ==
  /\ val.k = "instance" /\ ~IsBytes(hp, val)
  /\ ~HasMember(hp, val, n_p) /\ ~HasMember(hp, val, n_dotp)

\* exactly one dot, with a name on either side of it
OneDotName(name) ==
  /\ name # Null /\ Len(name) >= 3
  /\ Cardinality({j \in 1..Len(name) : name[j] = "."}) = 1
  /\ name[1] # "." /\ name[Len(name)] # "."

FdModule == Global(strtok_first(fd.name))
FdMember == MemberOf(heap, FdModule, strtok_second(fd.name))
FdBothFound ==
  /\ OneDotName(fd.name)
  /\ FdModule # NoVal /\ FdMember # NoVal /\ FdMember # Nil

-----------------------------------------------------------------------------
(* The claims *)

\* C1: an error in the conversion of an argument or in the missing-arguments
\* check ends the call with no native invocation; the native function is
\* invoked once at most, and only after every argument was converted and the
\* check was passed.
C1_NoInvocationAfterArgumentError ==
  /\ (err \in ArgErrors => ncalls = 0)
  /\ (pc \in {"enter", "args", "invoke", "adopted", "crashed"} => ncalls = 0)
  /\ (ncalls > 0 => ncalls = 1 /\ i >= arg_count /\ err \notin ArgErrors)

C1_Witness ==
  /\ pc = "raised" /\ err = "unexpected_argument_type" /\ ncalls = 0
  /\ arg_type0 = <<"i", "i">> /\ last.i = 1

\* C2 (as stated): under a class name of more than one character taken from a
\* '(name)' token (a one-character name is read as a simple tag) a value that
\* is no instance is accepted only if its raw word is zero, and is rejected
\* with a type error if its raw word is not zero.
C2_ClassTagAcceptsOnlyNull ==
  (/\ pc = "done" /\ mode = "conv" /\ IsSimpleKind(CvValue)
   /\ FromParenToken(cv.tag) /\ IsNamedClass(cv.tag))
    => /\ (cvout.err = "" => CvValue.v = 0)
       /\ (CvValue.v # 0 => cvout.err = "type_error")

\* C3 (as stated): under a class name that does not resolve, every value
\* fails with the class-not-found error.
C3_UnresolvedClassAlwaysFails ==
  (pc = "done" /\ mode = "conv" /\ IsNamedClass(cv.tag) /\ Unresolved(cv.tag))
    => cvout.msg = "class_not_found"

\* C3 (amended): under a class name that does not resolve, every instance
\* off the bytes line whose pointer member stands for a word fails with the
\* class-not-found error, and no word is returned.
C3_UnresolvedClassFailsForWrappers ==
  (/\ pc = "done" /\ mode = "conv" /\ IsNamedClass(cv.tag) /\ Unresolved(cv.tag)
   /\ CvValue.k = "instance" /\ ~IsBytes(heap, CvValue) /\ WordOf(heap, CvValue) >= 0)
    => cvout.err = "value_error" /\ cvout.msg = "class_not_found"

C3_Witness ==
  /\ pc = "done" /\ mode = "conv" /\ cv.tag = <<"z", "z">> /\ CvValue = InstV(1)
  /\ cvout.msg = "class_not_found"

C5_SkipsFillNoSlot ==
  (pc \notin {"enter", "adopted"} /\ SimpleMatched /\ Len(WordsOfFirst(arg_count)) <= NSlots)
    => /\ err \notin ArgErrors /\ pc # "crashed" /\ ~oob
       /\ i <= arg_count /\ arg_idx = i
       /\ p_idx = Len(WordsOfFirst(i))
       /\ \A k \in 0..(NSlots - 1) :
            p[k] = IF k < p_idx THEN WordsOfFirst(i)[k + 1] ELSE 0
       /\ (pc \in {"invoke", "result", "done"} =>
             i = arg_count /\ p_idx = Len(WordsOfFirst(arg_count)))
       /\ Live(stack) = args0

C5_Witness ==
  /\ pc = "invoke" /\ arg_type0 = <<"i", "i", "-", "s">> /\ Len(WindowArgs) = 4
  /\ p_idx = 3 /\ p[0] = 5 /\ p[1] = 0 /\ p[2] = 40 /\ p[3] = 0

\* C6 (as stated): an argument met once the descriptor is used up, with type
\* checking on, makes the call fail and yields no word.
C6_SurplusArgumentFails ==
  last.surplus => last.err # ""

\* C7 (as stated): an instance off the bytes line with neither `_p` nor `.p`
\* fails to convert under every tag.
C7_BareInstanceFails ==
  (pc = "done" /\ mode = "conv" /\ IsBareInstance(heap, CvValue)) => cvout.err # ""

\* C8 (as stated): for 'module.member' with both found, two values are
\* pushed exactly when the member is an instance, one otherwise.
C8_MethodWhenMemberIsInstance ==
  (pc = "done" /\ mode = "find" /\ FdBothFound)
    => fdout.n = IF FdMember.k = "instance" THEN 2 ELSE 1

\* C8 (amended): for 'module.member' with both found, the member then the
\* global are pushed (2) exactly when the global is an instance, and the
\* member alone (1) otherwise, whatever the member is.
C8_MethodWhenGlobalIsInstance ==
  (pc = "done" /\ mode = "find" /\ FdBothFound)
    => IF FdModule.k = "instance"
       THEN fdout.n = 2 /\ Live(fdout.st) = fd.st \o <<FdMember, FdModule>>
       ELSE fdout.n = 1 /\ Live(fdout.st) = fd.st \o <<FdMember>>

C8_Witness ==
  /\ pc = "done" /\ mode = "find" /\ fd.name = <<"i", "n", ".", "o", "b">>
  /\ fdout.n = 2 /\ FdMember = ClassV(2)

\* C9 (as stated): no slot outside 0..7 of the array is written; the count of
\* filled slots stays at eight or less.
C9_SlotsWithinArray ==
  p_idx <= NSlots /\ ~oob

\* C10 (as stated): a conversion that returns a word leaves the stack as it
\* found it, in height and in content.
C10_ConvertKeepsStack ==
  (pc = "done" /\ mode = "conv" /\ cvout.err = "") => Live(cvout.st) = cv.st

====
